---- MODULE Spec2Model ----
(***************************************************************************)
(* A model of youtube_dl/extractor/roosterteeth.py: the session set-up of  *)
(* RoosterTeethIE (_real_initialize, _login), its episode extraction       *)
(* (_real_extract) and the series extraction of RoosterTeethSeriesIE       *)
(* (_real_extract, get_season_episodes_pages).                             *)
(*                                                                         *)
(* The extractor is sequential.  Every action below is one blocking        *)
(* network call of a method together with all the code that runs up to     *)
(* the next network call or to the method's return or raise.  The backend  *)
(* is the environment: each call draws its outcome (a JSON document, or    *)
(* the ExtractorError that _download_json raises) from a small set.        *)
(* Python's assert statement is modelled as executed (__debug__ is true).  *)
(***************************************************************************)
EXTENDS Integers, Sequences, FiniteSets, TLC

VARIABLES
    cookie,       \* the cookie jar holds rt_access_token for _EPISODE_BASE_URL
    credential,   \* _get_login_info() yields a username (not None)
    pc,           \* where the running method stands; "idle" between calls
    call,         \* the method called last: "none", "init", "episode", "series"
    cookieAtCall, \* history: the value of cookie when the last call began
    display_id,   \* _match_id(url) of the running extraction
    requests,     \* history: the network requests of the last call, in order
    failed,       \* history: the ExtractorError _download_json raised in the
                  \* last call (NoError when every request was answered)
    warnings,     \* what the module's code passed to report_warning in the
                  \* last call, in order
    error,        \* the exception the last call raised (NoError when none)
    ret,          \* the value the last call returned (NoRet when none)
    m3u8_url,     \* local of RoosterTeethIE._real_extract
    data0,        \* local of RoosterTeethSeriesIE._real_extract
    seasons,      \* seasons['data'] of RoosterTeethSeriesIE._real_extract
    seasonIdx,    \* position of its for loop in seasons (1-based)
    entries,      \* its local list entries
    stack,        \* the active frames of get_season_episodes_pages
    walks         \* history: per season walk begun, the pages requested and
                  \* the listing responses received

vars == <<cookie, credential, pc, call, cookieAtCall, display_id, requests,
          failed, warnings, error, ret, m3u8_url, data0, seasons, seasonIdx,
          entries, stack, walks>>

seriesVars == <<data0, seasons, seasonIdx, entries, stack, walks>>

-----------------------------------------------------------------------------
(* Bounds of the model *)

\* The largest total_pages (and page) a listing response declares.
MaxTotal == 3

-----------------------------------------------------------------------------
(* Program constants *)

EPISODE_BASE_URL == "https://svod-be.roosterteeth.com/api/v1/episodes/"

domain == "https://roosterteeth.com"

api_domain == "https://svod-be.roosterteeth.com"

AUTH_DOMAIN == "https://auth.roosterteeth.com"

\* _add_per_page: count defaults to 1000
DefaultPerPage == 1000

-----------------------------------------------------------------------------
(* JSON values, HTTP error bodies, exceptions *)

\* A JSON member as dict.get returns it: t = "none" for an absent key or
\* null, "false"/"true" for booleans, "str" for a string (s its text),
\* "other" for any truthy value that is not a string (a number, a list, an
\* object).
JVal(t, s) == [t |-> t, s |-> s]

JNone == JVal("none", "")

JStr(s) == JVal("str", s)

\* Python truth value of a JSON member
Truthy(v) == v.t \in {"true", "other"} \/ (v.t = "str" /\ v.s # "")

\* Python's `a or b`
PyOr(a, b) == IF Truthy(a) THEN a ELSE b

\* The body of an HTTP error response, by what decode() and json.loads make
\* of it: kind = "undecodable" (bytes that do not decode), "notjson",
\* "falsy" (null, false, 0, "" or []), "nonobject" (a truthy JSON value
\* that is no object), "object" (its members follow; {} is the object
\* without any of them), "none" (no body).
Body(kind, extra_info, error_description, err, access) ==
    [kind |-> kind, extra_info |-> extra_info,
     error_description |-> error_description, error |-> err,
     access |-> access]

NoBody == Body("none", JNone, JNone, JNone, JNone)

PlainBody(kind) == Body(kind, JNone, JNone, JNone, JNone)

\* An exception: exc its class, origin the place that raised it, http
\* whether its cause is a compat_HTTPError, code and body that cause's
\* status and body, msg its message.
Exc(exc, origin, http, code, body, msg) ==
    [exc |-> exc, origin |-> origin, http |-> http, code |-> code,
     body |-> body, msg |-> msg]

NoError == Exc("none", "", FALSE, 0, NoBody, "")

\* An exception of a Python built-in class raised by the module's own code
PyError(cls, origin) == Exc(cls, origin, FALSE, 0, NoBody, "")

\* The ExtractorError _download_json raises for an HTTP error status
HTTPFailure(code, body) ==
    Exc("ExtractorError", "download", TRUE, code, body, "")

\* The ExtractorError _download_json raises for any other failure
\* (connection error, response that is not JSON)
OtherFailure == Exc("ExtractorError", "download", FALSE, 0, NoBody, "")

\* A URL: base and path as the code concatenates them, and the query
\* members page and per_page (0 when absent).
Url(base, path) == [base |-> base, path |-> path, page |-> 0, per_page |-> 0]

\* A network request: site names the call in the source, url and video_id
\* are the arguments of _download_json.
Request(site, url, video_id) ==
    [site |-> site, url |-> url, video_id |-> video_id]

\* A returned value: type "episode" (an info dict) or "playlist"
Ret(type, id, disp, title, ents) ==
    [type |-> type, id |-> id, display_id |-> disp, title |-> title,
     entries |-> ents]

NoRet == Ret("none", "", "", "", <<>>)

\* failed when no request of the call has failed
NoFailure == [e |-> NoError, at |-> 0]

NoData0 == [title |-> "", seasons |-> ""]

-----------------------------------------------------------------------------
(* The backend: what the calls can be answered with *)

\* Bodies of a failed token exchange
LoginFieldValues(text) == {JNone, JStr(""), JStr(text), JVal("other", "")}

LoginBodies ==
    { PlainBody(k) : k \in {"undecodable", "notjson", "falsy", "nonobject"} }
    \cup
    { Body("object", x, d, e, JNone) :
        x \in LoginFieldValues("extra"),
        d \in LoginFieldValues("description"),
        e \in LoginFieldValues("invalid_grant") }

\* Statuses of a failed token exchange
LoginStatuses == {400, 401}

LoginFailures ==
    { HTTPFailure(c, b) : c \in LoginStatuses, b \in LoginBodies }
    \cup {OtherFailure}

-----------------------------------------------------------------------------
(* RoosterTeethIE._login and _real_initialize *)

\* _parse_json(..., fatal=False): the parsed value, a falsy value when the
\* text is not JSON (what _parse_json itself reports then is not recorded
\* in warnings)
parse_json_nonfatal(body) ==
    IF body.kind = "notjson" THEN PlainBody("falsy") ELSE body

\* A variant of LoginError that looks at error_description first
LoginErrorOther(resp) ==
    PyOr(PyOr(resp.error_description, resp.extra_info), resp.error)

\* resp.get('extra_info') or resp.get('error_description') or resp.get('error')
LoginError(resp) ==
    PyOr(PyOr(resp.extra_info, resp.error_description), resp.error)

\* The except clause of _login for the ExtractorError e: the exception it
\* lets escape (NoError when none) and the warnings it reports.
login_except(e) ==
    LET done(msg) == [error |-> NoError, warnings |-> <<msg>>]
        raise(x) == [error |-> x, warnings |-> <<>>]
        msg == "Unable to login"
    IN  IF e.http /\ e.code = 401
        THEN IF e.body.kind = "undecodable"
             THEN raise(PyError("UnicodeDecodeError", "login"))
             ELSE LET resp == parse_json_nonfatal(e.body)
                  IN  IF resp.kind = "falsy"
                      THEN done(msg)
                      ELSE IF resp.kind # "object"
                      THEN raise(PyError("AttributeError", "login"))
                      ELSE LET err == LoginError(resp)
                           IN  IF ~Truthy(err)
                               THEN done(msg)
                               ELSE IF err.t = "str"
                               THEN done(msg \o ": " \o err.s)
                               ELSE raise(PyError("TypeError", "login"))
        ELSE done(msg)

TokenRequest ==
    Request("token", Url(AUTH_DOMAIN, "/oauth/token"), "None")

\* A variant of HasSession that never finds the cookie
HasSessionNever == FALSE

\* if self._get_cookies(...).get('rt_access_token'): return
HasSession == cookie

\* username, password = self._get_login_info(); if username is None: return
HasLoginInfo == credential

\* A method is called: its locals and the histories of the call are fresh,
\* and control stands at `next`
Enter(name, id, next) ==
    /\ call' = name
    /\ cookieAtCall' = cookie
    /\ display_id' = id
    /\ requests' = <<>>
    /\ failed' = NoFailure
    /\ warnings' = <<>>
    /\ error' = NoError
    /\ ret' = NoRet
    /\ m3u8_url' = ""
    /\ data0' = NoData0
    /\ seasons' = <<>>
    /\ seasonIdx' = 0
    /\ entries' = <<>>
    /\ stack' = <<>>
    /\ walks' = <<>>
    /\ pc' = next
    /\ UNCHANGED <<cookie, credential>>

\* The call ends: it raised err (NoError when none) or returned r
Finish(err, r) ==
    /\ pc' = "idle"
    /\ error' = err
    /\ ret' = r

\* _real_initialize is called: it returns at once when the cookie is
\* there, and so does _login when there is no username; otherwise _login
\* goes on to its request
real_initialize ==
    /\ pc = "idle"
    /\ Enter("init", "", IF HasSession \/ ~HasLoginInfo THEN "idle" ELSE "login")

\* _login's request is answered: the response may or may not set the cookie
login_ok ==
    /\ pc = "login"
    /\ requests' = Append(requests, TokenRequest)
    /\ \E set \in BOOLEAN : cookie' = set
    /\ Finish(NoError, NoRet)
    /\ UNCHANGED <<credential, call, cookieAtCall, display_id, failed,
                   warnings, m3u8_url, seriesVars>>

\* _login's request fails
login_fail ==
    /\ pc = "login"
    /\ requests' = Append(requests, TokenRequest)
    /\ \E e \in LoginFailures :
        /\ failed' = [e |-> e, at |-> Len(requests')]
        /\ warnings' = login_except(e).warnings
        /\ Finish(login_except(e).error, NoRet)
    /\ UNCHANGED <<cookie, credential, call, cookieAtCall, display_id,
                   m3u8_url, seriesVars>>

-----------------------------------------------------------------------------
(* RoosterTeethIE._real_extract *)

DisplayIds == {"million-dollars-but", "rt-docs-head-massage"}

\* Bodies of a failed videos request
AccessBodies ==
    { PlainBody(k) : k \in {"undecodable", "notjson", "falsy", "nonobject"} }
    \cup
    { Body("object", JNone, JNone, JNone, a) :
        a \in {JNone, JVal("false", ""), JVal("true", "")} }

VideosStatuses == {403, 404}

VideosFailures ==
    { HTTPFailure(c, b) : c \in VideosStatuses, b \in AccessBodies }
    \cup {OtherFailure}

\* The episode metadata document: data[0] with its id and the attributes
\* title and display_title
EpisodeDocs ==
    { [id |-> 9156, title |-> t, display_title |-> d] :
        t \in {JNone, JStr("The Game Announcement")},
        d \in {JNone, JStr("Game Announcement")} }

\* '%s is only available for FIRST members' % display_id
MembersOnlyMessage(id) == id \o " is only available for FIRST members"

\* self.raise_login_required(msg)
raise_login_required(msg) ==
    Exc("ExtractorError", "login_required", FALSE, 0, NoBody, msg)

\* _parse_json(text, display_id), fatal: the ExtractorError it raises when
\* the text is not JSON
ParseFailure == Exc("ExtractorError", "parse_json", FALSE, 0, NoBody, "")

\* The except clause around the videos request: the exception that leaves
\* _real_extract when _download_json raised e.
videos_except(e, id) ==
    IF e.http /\ e.code = 403
    THEN IF e.body.kind = "undecodable"
         THEN PyError("UnicodeDecodeError", "videos")
         ELSE IF e.body.kind = "notjson"
         THEN ParseFailure
         ELSE IF e.body.kind # "object"
         THEN PyError("AttributeError", "videos")
         ELSE IF e.body.access.t = "false"
         THEN raise_login_required(MembersOnlyMessage(id))
         ELSE e
    ELSE e

api_episode_url(id) == Url(EPISODE_BASE_URL, id)

VideosRequest(id) ==
    Request("videos", Url(EPISODE_BASE_URL, id \o "/videos"), id)

\* attributes.get('title') or attributes['display_title']; "" stands for
\* a title of None
Title(doc) ==
    IF Truthy(doc.title) THEN doc.title.s ELSE doc.display_title.s

\* _real_extract is called with the URL of an episode
real_extract ==
    /\ pc = "idle"
    /\ \E id \in DisplayIds : Enter("episode", id, "videos")

\* The videos request is answered with a document holding the manifest URL
real_extract_videos_ok ==
    /\ pc = "videos"
    /\ requests' = Append(requests, VideosRequest(display_id))
    /\ m3u8_url' = "https://cdn.roosterteeth.com/" \o display_id \o ".m3u8"
    /\ pc' = "formats"
    /\ UNCHANGED <<cookie, credential, call, cookieAtCall, display_id, failed,
                   warnings, error, ret, seriesVars>>

\* The videos request is answered with a document without data[0]:
\* ['data'][0] raises inside the try, and no except clause matches
real_extract_videos_shape ==
    /\ pc = "videos"
    /\ requests' = Append(requests, VideosRequest(display_id))
    /\ Finish(PyError("IndexError", "videos"), NoRet)
    /\ UNCHANGED <<cookie, credential, call, cookieAtCall, display_id, failed,
                   warnings, m3u8_url, seriesVars>>

\* The videos request fails
real_extract_videos_fail ==
    /\ pc = "videos"
    /\ requests' = Append(requests, VideosRequest(display_id))
    /\ \E e \in VideosFailures :
        /\ failed' = [e |-> e, at |-> Len(requests')]
        /\ Finish(videos_except(e, display_id), NoRet)
    /\ UNCHANGED <<cookie, credential, call, cookieAtCall, display_id,
                   warnings, m3u8_url, seriesVars>>

\* _extract_m3u8_formats downloads the manifest; _sort_formats raises when
\* no format was found
real_extract_formats ==
    /\ pc = "formats"
    /\ requests' = Append(requests, Request("m3u8", Url(m3u8_url, ""), display_id))
    /\ \E found \in BOOLEAN :
        IF found
        THEN /\ pc' = "metadata"
             /\ UNCHANGED <<error, ret>>
        ELSE Finish(Exc("ExtractorError", "sort_formats", FALSE, 0, NoBody, ""),
                    NoRet)
    /\ UNCHANGED <<cookie, credential, call, cookieAtCall, display_id, failed,
                   warnings, m3u8_url, seriesVars>>

MetadataRequest(id) == Request("metadata", api_episode_url(id), id)

\* The metadata request is answered
real_extract_metadata_ok ==
    /\ pc = "metadata"
    /\ requests' = Append(requests, MetadataRequest(display_id))
    /\ \E doc \in EpisodeDocs :
        IF ~Truthy(doc.title) /\ doc.display_title.t = "none"
        THEN Finish(PyError("KeyError", "metadata"), NoRet)
        ELSE Finish(NoError,
                    Ret("episode", ToString(doc.id), display_id, Title(doc), <<>>))
    /\ UNCHANGED <<cookie, credential, call, cookieAtCall, display_id, failed,
                   warnings, m3u8_url, seriesVars>>

\* The metadata request fails
real_extract_metadata_fail ==
    /\ pc = "metadata"
    /\ requests' = Append(requests, MetadataRequest(display_id))
    /\ failed' = [e |-> OtherFailure, at |-> Len(requests')]
    /\ Finish(OtherFailure, NoRet)
    /\ UNCHANGED <<cookie, credential, call, cookieAtCall, display_id,
                   warnings, m3u8_url, seriesVars>>

-----------------------------------------------------------------------------
(* RoosterTeethSeriesIE: the backend's documents *)

ShowIds == {"sunday-driving"}

\* series['data'][0]: attributes.title and links.seasons
ShowDoc(show_id) ==
    [title |-> "Sunday Driving",
     seasons |-> "/api/v1/shows/" \o show_id \o "/seasons"]

\* One season of seasons['data']: attributes.slug and links.episodes
Season(slug) ==
    [slug |-> slug, episodes |-> "/api/v1/seasons/" \o slug \o "/episodes"]

\* The seasons listings the backend answers with
SeasonLists ==
    { <<>>,
      <<Season("sunday-driving-2018")>>,
      <<Season("sunday-driving-2018"), Season("sunday-driving-2019")>> }

\* The numbers of entries a listing page holds
PageSizes == {0, 2}

\* canonical_links.self of the i-th entry of a page
CanonicalLink(slug, page, i) ==
    "/watch/" \o slug \o "-" \o ToString(page) \o "-" \o ToString(i)

\* The page numbers a listing document declares when page `page` was
\* requested: that page, or a wrong one (one lower, one higher)
DeclaredPages(page) == {page - 1, page, page + 1}

\* The listing documents the backend answers a request of page `page` of
\* season `slug` with: any of these declared pages, any total_pages, any
\* size; total_pages need not be the same from one response to the next
ListingDocs(slug, page) ==
    { [page |-> p, total_pages |-> t,
       data |-> [i \in 1..n |-> CanonicalLink(slug, page, i)]] :
        p \in DeclaredPages(page), t \in 0..MaxTotal, n \in PageSizes }

-----------------------------------------------------------------------------
(* RoosterTeethSeriesIE._set_query_string, _add_per_page,                  *)
(* get_season_episodes_pages                                               *)

\* qs[key] = [value]
set_query_string(url, key, value) == [url EXCEPT ![key] = value]

\* count defaults to 1000
add_per_page(url) == set_query_string(url, "per_page", DefaultPerPage)

\* A frame of get_season_episodes_pages: its arguments and its local entries
Frame(episode_link, season_slug, page) ==
    [episode_link |-> episode_link, season_slug |-> season_slug,
     page |-> page, entries |-> <<>>]

\* A variant of ListingRequest that asks the episode endpoint of the slug
ListingRequestOfEpisodes(f) ==
    Request("listing",
            add_per_page(set_query_string(
                Url(EPISODE_BASE_URL, f.season_slug), "page", f.page)),
            f.season_slug \o "_" \o ToString(f.page))

\* The _download_json call of a frame
ListingRequest(f) ==
    Request("listing",
            add_per_page(set_query_string(f.episode_link, "page", f.page)),
            f.season_slug \o "_" \o ToString(f.page))

\* A variant of PageMatches without the comparison
PageMatchesUnchecked(page, se_page) == TRUE

\* assert page == se_page['page']
PageMatches(page, se_page) == page = se_page.page

\* for link in se_page['data']: entries.append(self.domain + link[...])
Collect(f, se_page) ==
    [f EXCEPT !.entries =
        @ \o [i \in 1..Len(se_page.data) |-> domain \o se_page.data[i]]]

\* Variants of HasNextPage: one page too far, and "until page equals
\* total_pages"
HasNextPageInclusive(se_page) == se_page.page <= se_page.total_pages

HasNextPageUntilEqual(se_page) == se_page.page # se_page.total_pages

\* if se_page['page'] < se_page['total_pages']
HasNextPage(se_page) == se_page.page < se_page.total_pages

\* A variant of ReturnAll in which a caller puts what its callee returned
\* before its own entries
ReturnAllPrepending(stk) ==
    LET n == Len(stk)
        RECURSIVE Ret2(_)
        Ret2(k) == IF k = n THEN stk[n].entries ELSE Ret2(k + 1) \o stk[k].entries
    IN  Ret2(1)

\* The frames return, innermost first: each caller extends its entries by
\* what its callee returned; the outermost frame's entries are the result.
RECURSIVE ReturnAll(_)
ReturnAll(stk) ==
    LET n == Len(stk)
    IN  IF n = 1
        THEN stk[1].entries
        ELSE ReturnAll(
                [SubSeq(stk, 1, n - 1) EXCEPT ![n - 1].entries =
                    @ \o stk[n].entries])

\* self.url_result(entry)
url_result(entry) == [type |-> "url", url |-> entry]

\* videos = [self.url_result(entry) for entry in entries]
Videos(ents) == [i \in 1..Len(ents) |-> url_result(ents[i])]

\* A variant of download_json_raises that swallows the error and makes the
\* request again
download_json_retries(at, e) == [pc |-> at, error |-> NoError]

\* _download_json is called with fatal left True and inside no try: the
\* ExtractorError e it raises at control point `at` ends the call.
download_json_raises(at, e) == [pc |-> "idle", error |-> e]

-----------------------------------------------------------------------------
(* RoosterTeethSeriesIE._real_extract *)

ShowRequest(show_id) ==
    Request("show", Url(api_domain, "/api/v1/shows/" \o show_id), show_id)

SeasonsRequest(show_id, d0) ==
    Request("seasons", Url(api_domain, d0.seasons), show_id \o "_seasons")

\* The failures of a request of the series extraction
SeriesFailures == {OtherFailure, HTTPFailure(404, PlainBody("notjson"))}

\* A request of the series extraction fails with e
SeriesFailure(at, e) ==
    /\ failed' = [e |-> e, at |-> Len(requests')]
    /\ pc' = download_json_raises(at, e).pc
    /\ error' = download_json_raises(at, e).error
    /\ ret' = NoRet

\* _real_extract is called with the URL of a series
series_real_extract ==
    /\ pc = "idle"
    /\ \E show_id \in ShowIds : Enter("series", show_id, "show")

\* The show request is answered; a document without data[0] raises
\* IndexError
series_show_ok ==
    /\ pc = "show"
    /\ requests' = Append(requests, ShowRequest(display_id))
    /\ \E shaped \in BOOLEAN :
        IF shaped
        THEN /\ data0' = ShowDoc(display_id)
             /\ pc' = "seasons"
             /\ UNCHANGED <<error, ret>>
        ELSE /\ data0' = NoData0
             /\ Finish(PyError("IndexError", "show"), NoRet)
    /\ UNCHANGED <<cookie, credential, call, cookieAtCall, display_id, failed,
                   warnings, m3u8_url, seasons, seasonIdx, entries, stack,
                   walks>>

\* The show request fails
series_show_fail ==
    /\ pc = "show"
    /\ requests' = Append(requests, ShowRequest(display_id))
    /\ \E e \in SeriesFailures : SeriesFailure("show", e)
    /\ UNCHANGED <<cookie, credential, call, cookieAtCall, display_id,
                   warnings, m3u8_url, seriesVars>>

\* The playlist _real_extract returns
Playlist(show_id, d0, ents) ==
    Ret("playlist", show_id, "", d0.title, Videos(ents))

\* The seasons request is answered; with no season the loop body never
\* runs and the playlist is returned at once
series_seasons_ok ==
    /\ pc = "seasons"
    /\ requests' = Append(requests, SeasonsRequest(display_id, data0))
    /\ \E sl \in SeasonLists :
        /\ seasons' = sl
        /\ seasonIdx' = 1
        /\ IF sl = <<>>
           THEN Finish(NoError, Playlist(display_id, data0, entries))
           ELSE /\ pc' = "page"
                /\ UNCHANGED <<error, ret>>
    /\ UNCHANGED <<cookie, credential, call, cookieAtCall, display_id, failed,
                   warnings, m3u8_url, data0, entries, stack, walks>>

\* The seasons request fails
series_seasons_fail ==
    /\ pc = "seasons"
    /\ requests' = Append(requests, SeasonsRequest(display_id, data0))
    /\ \E e \in SeriesFailures : SeriesFailure("seasons", e)
    /\ UNCHANGED <<cookie, credential, call, cookieAtCall, display_id,
                   warnings, m3u8_url, seriesVars>>

\* The frame about to call _download_json: the innermost one, or, when
\* none is active, the one the for loop of _real_extract enters for
\* seasons[seasonIdx] (page defaults to 1)
FirstFrame ==
    Frame(Url(api_domain, seasons[seasonIdx].episodes),
          seasons[seasonIdx].slug, 1)

CurrentFrame == IF stack = <<>> THEN FirstFrame ELSE stack[Len(stack)]

\* walks with the request r added to the running walk, a new walk being
\* begun when no frame is active
WalksWithRequest(r) ==
    IF stack = <<>>
    THEN Append(walks, [req |-> <<r>>, resp |-> <<>>])
    ELSE [walks EXCEPT ![Len(walks)].req = Append(@, r)]

\* The request of a listing page is answered with se_page
series_page_ok ==
    /\ pc = "page"
    /\ LET f == CurrentFrame
           below == IF stack = <<>> THEN <<>> ELSE SubSeq(stack, 1, Len(stack) - 1)
       IN  /\ requests' = Append(requests, ListingRequest(f))
           /\ \E se_page \in ListingDocs(f.season_slug, f.page) :
               /\ walks' = [WalksWithRequest(ListingRequest(f)) EXCEPT
                               ![Len(WalksWithRequest(ListingRequest(f)))].resp =
                                   Append(@, se_page)]
               /\ IF ~PageMatches(f.page, se_page)
                  THEN /\ Finish(PyError("AssertionError", "listing"), NoRet)
                       /\ stack' = <<>>
                       /\ UNCHANGED <<seasonIdx, entries>>
                  ELSE IF HasNextPage(se_page)
                  THEN /\ stack' = Append(Append(below, Collect(f, se_page)),
                                          Frame(f.episode_link, f.season_slug,
                                                f.page + 1))
                       /\ UNCHANGED <<pc, error, ret, seasonIdx, entries>>
                  ELSE LET all == entries \o
                                  ReturnAll(Append(below, Collect(f, se_page)))
                       IN  /\ stack' = <<>>
                           /\ entries' = all
                           /\ seasonIdx' = seasonIdx + 1
                           /\ IF seasonIdx = Len(seasons)
                              THEN Finish(NoError,
                                          Playlist(display_id, data0, all))
                              ELSE UNCHANGED <<pc, error, ret>>
    /\ UNCHANGED <<cookie, credential, call, cookieAtCall, display_id, failed,
                   warnings, m3u8_url, data0, seasons>>

\* The request of a listing page fails
series_page_fail ==
    /\ pc = "page"
    /\ requests' = Append(requests, ListingRequest(CurrentFrame))
    /\ walks' = WalksWithRequest(ListingRequest(CurrentFrame))
    /\ \E e \in SeriesFailures : SeriesFailure("page", e)
    /\ stack' = <<>>
    /\ UNCHANGED <<cookie, credential, call, cookieAtCall, display_id,
                   warnings, m3u8_url, data0, seasons, seasonIdx, entries>>

-----------------------------------------------------------------------------

Init ==
    /\ cookie \in BOOLEAN
    /\ credential \in BOOLEAN
    /\ pc = "idle"
    /\ call = "none"
    /\ cookieAtCall = cookie
    /\ display_id = ""
    /\ requests = <<>>
    /\ failed = NoFailure
    /\ warnings = <<>>
    /\ error = NoError
    /\ ret = NoRet
    /\ m3u8_url = ""
    /\ data0 = NoData0
    /\ seasons = <<>>
    /\ seasonIdx = 0
    /\ entries = <<>>
    /\ stack = <<>>
    /\ walks = <<>>

\* The calls of RoosterTeethIE: session set-up and episode extraction
Next ==
    \/ real_initialize
    \/ login_ok
    \/ login_fail
    \/ real_extract
    \/ real_extract_videos_ok
    \/ real_extract_videos_shape
    \/ real_extract_videos_fail
    \/ real_extract_formats
    \/ real_extract_metadata_ok
    \/ real_extract_metadata_fail

Spec == Init /\ [][Next]_vars

\* The series extraction of RoosterTeethSeriesIE, which reads neither the
\* cookie jar nor the login info
SeriesInit == Init /\ ~cookie /\ ~credential

SeriesNext ==
    \/ series_real_extract
    \/ series_show_ok
    \/ series_show_fail
    \/ series_seasons_ok
    \/ series_seasons_fail
    \/ series_page_ok
    \/ series_page_fail

SeriesSpec == SeriesInit /\ [][SeriesNext]_vars

-----------------------------------------------------------------------------
(* Properties of the series extraction (checked under SeriesSpec) *)

\* The pages 1, 2, ..., n
Pages(n) == [i \in 1..n |-> i]

\* The page numbers the requests of walk w asked for
RequestedPages(w) == [i \in 1..Len(w.req) |-> w.req[i].url.page]

\* Every request of walk w was answered, each response declaring the page
\* requested and total_pages = n
Stable(w, n) ==
    /\ Len(w.resp) = Len(w.req)
    /\ \A i \in 1..Len(w.resp) :
        /\ w.resp[i].page = w.req[i].url.page
        /\ w.resp[i].total_pages = n

\* Walk k has returned to _real_extract
Halted(k) == k < Len(walks) \/ (stack = <<>> /\ error = NoError)

\* The canonical links of the responses rs, in order
RECURSIVE LinksOfResponses(_)
LinksOfResponses(rs) ==
    IF rs = <<>> THEN <<>>
    ELSE rs[1].data \o LinksOfResponses(Tail(rs))

\* The canonical links of the responses of the walks ws, in order
RECURSIVE LinksOfWalks(_)
LinksOfWalks(ws) ==
    IF ws = <<>> THEN <<>>
    ELSE LinksOfResponses(ws[1].resp) \o LinksOfWalks(Tail(ws))

\* The page references of the links ls, as the playlist holds them
References(ls) ==
    [j \in 1..Len(ls) |-> [type |-> "url", url |-> domain \o ls[j]]]

\* The number of entries of the responses rs
RECURSIVE CountOfResponses(_)
CountOfResponses(rs) ==
    IF rs = <<>> THEN 0 ELSE Len(rs[1].data) + CountOfResponses(Tail(rs))

RECURSIVE CountOfWalks(_)
CountOfWalks(ws) ==
    IF ws = <<>> THEN 0
    ELSE CountOfResponses(ws[1].resp) + CountOfWalks(Tail(ws))

\* C1: a season's walk against a backend whose responses echo the requested
\* page and all report total_pages = N >= 1 requests the pages 1, 2, ... in
\* that order, never a page above N, and has returned exactly when the N-th
\* request was answered: N requests, pages 1..N, each once.
C1_WalkCoversPages ==
    \A k \in 1..Len(walks) : \A n \in 1..MaxTotal :
        Stable(walks[k], n) =>
            /\ RequestedPages(walks[k]) = Pages(Len(walks[k].req))
            /\ Len(walks[k].req) <= n
            /\ Halted(k) <=> (Len(walks[k].req) = n)
            /\ \A i \in 1..Len(walks[k].req) :
                /\ walks[k].req[i].site = "listing"
                /\ walks[k].req[i].url.base = api_domain
                /\ walks[k].req[i].url.path = seasons[k].episodes

\* A stable walk of MaxTotal pages has returned after MaxTotal requests.
C1_Witness ==
    \E k \in 1..Len(walks) :
        /\ Stable(walks[k], MaxTotal)
        /\ Halted(k)
        /\ RequestedPages(walks[k]) = Pages(MaxTotal)

\* C2: the entries of the playlist _real_extract returns are the references
\* of all listing entries received, in the order (season of the seasons
\* listing, page, position in the page): as many as the pages held together,
\* none dropped, duplicated or reordered.
C2_EntriesInListingOrder ==
    (call = "series" /\ ret.type = "playlist") =>
        /\ Len(walks) = Len(seasons)
        /\ \A k \in 1..Len(walks) :
            /\ walks[k].req[1].url.path = seasons[k].episodes
            /\ RequestedPages(walks[k]) = Pages(Len(walks[k].req))
        /\ Len(ret.entries) = CountOfWalks(walks)
        /\ ret.entries = References(LinksOfWalks(walks))
        /\ ret.id = display_id
        /\ ret.title = data0.title

\* A playlist of two seasons, the first of them of several non-empty pages.
C2_Witness ==
    /\ call = "series"
    /\ ret.type = "playlist"
    /\ Len(walks) = 2
    /\ Len(walks[1].resp) >= 2
    /\ \A i \in 1..2 : walks[1].resp[i].data # <<>>
    /\ walks[2].resp[1].data # <<>>

\* C6: a series extraction requests no episode endpoint (no URL under
\* _EPISODE_BASE_URL, no videos, metadata or manifest request), and the
\* entries it returns are url references, none of them resolved.
C6_NoEpisodeRequest ==
    (call = "series") =>
        /\ \A i \in 1..Len(requests) :
            /\ requests[i].url.base # EPISODE_BASE_URL
            /\ requests[i].site \in {"show", "seasons", "listing"}
        /\ \A j \in 1..Len(ret.entries) : ret.entries[j].type = "url"

\* A series extraction has returned a playlist with entries.
C6_Witness ==
    /\ call = "series"
    /\ ret.type = "playlist"
    /\ Len(ret.entries) > 0
    /\ Len(requests) >= 3

\* The first response of walk w declares page 1, holds no entry and
\* reports total_pages 0 or 1
EmptySeason(w) ==
    /\ Len(w.resp) >= 1
    /\ w.resp[1].page = 1
    /\ w.resp[1].data = <<>>
    /\ w.resp[1].total_pages \in {0, 1}

\* ws without its k-th element
Without(ws, k) == SubSeq(ws, 1, k - 1) \o SubSeq(ws, k + 1, Len(ws))

\* C7: the walk of an empty season (page 1 without entries, total_pages 0 or
\* 1) makes one request and returns without an exception and without an
\* entry; the extraction goes on to the next season or, after the last one,
\* returns the playlist, whose entries are those of the other seasons.
C7_EmptySeasonIsNoFailure ==
    \A k \in 1..Len(walks) :
        EmptySeason(walks[k]) =>
            /\ Len(walks[k].req) = 1
            /\ Halted(k)
            /\ k = Len(walks) =>
                /\ error = NoError
                /\ entries = [j \in 1..Len(entries) |->
                                References(LinksOfWalks(Without(walks, k)))[j].url]
                /\ Len(entries) = CountOfWalks(Without(walks, k))
                /\ IF k = Len(seasons)
                   THEN /\ pc = "idle"
                        /\ ret.type = "playlist"
                        /\ ret.entries =
                               References(LinksOfWalks(Without(walks, k)))
                   ELSE pc = "page" /\ seasonIdx = k + 1

\* A playlist with entries was returned although the last season was empty.
C7_Witness ==
    /\ call = "series"
    /\ ret.type = "playlist"
    /\ Len(walks) = 2
    /\ EmptySeason(walks[2])
    /\ Len(ret.entries) > 0

\* C8: a listing response that declares another page than the one requested
\* is the last thing of the extraction: the call ends with an
\* AssertionError, that request is the last one made, no entry of the
\* response is collected and no playlist is returned.
C8_PageMismatchIsFatal ==
    \A k \in 1..Len(walks) : \A i \in 1..Len(walks[k].resp) :
        walks[k].resp[i].page # walks[k].req[i].url.page =>
            /\ k = Len(walks)
            /\ i = Len(walks[k].req)
            /\ requests[Len(requests)] = walks[k].req[i]
            /\ pc = "idle"
            /\ error = PyError("AssertionError", "listing")
            /\ ret = NoRet
            /\ stack = <<>>
            /\ \A j \in 1..Len(entries), l \in 1..Len(walks[k].resp[i].data) :
                entries[j] # domain \o walks[k].resp[i].data[l]
            /\ Len(entries) = CountOfWalks(SubSeq(walks, 1, k - 1))

\* The second page of the second season declared a wrong page, with entries.
C8_Witness ==
    /\ Len(walks) = 2
    /\ Len(walks[2].resp) = 2
    /\ walks[2].resp[2].page # 2
    /\ walks[2].resp[2].data # <<>>
    /\ walks[2].resp[2].total_pages > walks[2].resp[2].page
    /\ entries # <<>>

\* C9: when a request of the series extraction fails, the call ends there:
\* the ExtractorError of _download_json is the exception raised, the failed
\* request is the last request made (not made again, no page or season
\* after it), and nothing is returned, whatever was collected before.
C9_FailureEndsExtraction ==
    (call = "series" /\ failed.at # 0) =>
        /\ pc = "idle"
        /\ failed.at = Len(requests)
        /\ error = failed.e
        /\ error.exc = "ExtractorError"
        /\ ret = NoRet
        /\ stack = <<>>

\* A page of the second season failed after entries had been collected.
C9_Witness ==
    /\ call = "series"
    /\ failed.at # 0
    /\ Len(walks) = 2
    /\ Len(walks[2].req) >= 2
    /\ entries # <<>>
    /\ requests[failed.at].site = "listing"

-----------------------------------------------------------------------------
(* Properties of the session set-up and of the episode extraction          *)
(* (checked under Spec)                                                    *)

\* C4: _real_initialize makes the token request only when the cookie was
\* absent and a username is configured, and then once; with the cookie
\* present, or without a username, it makes no request and returns without
\* an exception.
C4_TokenRequestOnlyWhenNeeded ==
    (call = "init") =>
        /\ Len(requests) <= 1
        /\ \A i \in 1..Len(requests) : requests[i] = TokenRequest
        /\ (pc = "login" \/ requests # <<>>) => (~cookieAtCall /\ credential)
        /\ (cookieAtCall \/ ~credential) =>
            /\ pc = "idle"
            /\ requests = <<>>
            /\ error = NoError
            /\ warnings = <<>>

\* _real_initialize was called with the cookie present and a username
\* configured, and has returned.
C4_Witness ==
    /\ call = "init"
    /\ pc = "idle"
    /\ cookieAtCall
    /\ credential
    /\ requests = <<>>

\* The token request of the last call failed
LoginFailed == call = "init" /\ failed.at # 0

\* The first of extra_info, error_description, error of body b that is
\* neither absent nor empty (JNone when there is none)
FirstNonEmpty(b) ==
    IF b.kind # "object" THEN JNone
    ELSE IF Truthy(b.extra_info) THEN b.extra_info
    ELSE IF Truthy(b.error_description) THEN b.error_description
    ELSE IF Truthy(b.error) THEN b.error
    ELSE JNone

\* Body b carries a message: that first field is a string
CarriesMessage(b) == FirstNonEmpty(b).t = "str"

\* C5: a failed token request never raises out of _real_initialize: it
\* returns normally with exactly one warning reported, so that the
\* extraction can go on unauthenticated.
C5_LoginFailureNeverRaises ==
    LoginFailed =>
        /\ pc = "idle"
        /\ error = NoError
        /\ Len(warnings) = 1

\* C10 as stated: after every failed token request whose body carries a
\* message, the warning reported holds the message of the first non-empty
\* field among extra_info, error_description, error; otherwise the generic
\* message alone.
C10_WarningCarriesMessage ==
    (LoginFailed /\ warnings # <<>>) =>
        warnings =
            << IF CarriesMessage(failed.e.body)
               THEN "Unable to login: " \o FirstNonEmpty(failed.e.body).s
               ELSE "Unable to login" >>

\* C10 amended: the body is read only when the token request failed with
\* HTTP status 401.  Then, when the first non-empty field among extra_info,
\* error_description, error of the JSON object is a string, the one warning
\* reported is "Unable to login: " followed by it.  Every other warning of
\* _login (another status, a failure without a response, a body without
\* such a field) is "Unable to login" alone.
C10_WarningCarriesMessageOn401 ==
    LoginFailed =>
        LET e == failed.e
            read == e.http /\ e.code = 401 /\ CarriesMessage(e.body)
        IN  /\ read => warnings =
                    <<"Unable to login: " \o FirstNonEmpty(e.body).s>>
            /\ (~read /\ warnings # <<>>) => warnings = <<"Unable to login">>

\* A 401 whose extra_info is empty and whose error_description and error are
\* both set: the warning holds error_description.
C10_Witness ==
    /\ LoginFailed
    /\ failed.e.code = 401
    /\ failed.e.body.kind = "object"
    /\ failed.e.body.extra_info = JStr("")
    /\ failed.e.body.error_description = JStr("description")
    /\ failed.e.body.error = JStr("invalid_grant")
    /\ warnings = <<"Unable to login: description">>

\* The videos request of the last call failed
VideosFailed == call = "episode" /\ failed.at = 1

\* The body of a 403 says that access is denied
AccessDenied(e) ==
    e.http /\ e.code = 403 /\ e.body.kind = "object" /\ e.body.access.t = "false"

\* C3: when the videos request fails, nothing is returned; a 403 whose body
\* says access is false raises the members-only error naming display_id
\* (the text in the source reads "... is only available for FIRST
\* members"); every other failure raises the error of the request itself,
\* unchanged.
C3_VideosFailure ==
    VideosFailed =>
        /\ pc = "idle"
        /\ ret = NoRet
        /\ IF AccessDenied(failed.e)
           THEN error = raise_login_required(MembersOnlyMessage(display_id))
           ELSE error = failed.e

====
